---- MODULE Spec2Model ----
(***************************************************************************)
(* Session store of the chat demo (src/app.py).  One Streamlit session:    *)
(* every widget event triggers one run of main(), which dispatches on      *)
(* current_page and lets the handler of the triggering widget mutate       *)
(* st.session_state.  Each action below is one such script run.            *)
(***************************************************************************)
EXTENDS Integers, Sequences, FiniteSets, TLC

\* ---- bounds of the model ----
\* number of uuid4() values drawn in a run (users, groups and messages together)
MaxIds == 4
\* largest wall-clock reading
MaxTime == 1

\* ---- inputs the widgets can deliver ----
\* contents of the login form at submission: name, age (the number input keeps
\* it in 18..100, default 25) and one of the four gender options
LoginForms ==
    { [name |-> "",      age |-> 25,  gender |-> "Male"],
      [name |-> "",      age |-> 25,  gender |-> "Select Gender"],
      [name |-> "Alice", age |-> 25,  gender |-> "Select Gender"],
      [name |-> "Alice", age |-> 18,  gender |-> "Female"],
      [name |-> "Bob",   age |-> 100, gender |-> "Other"] }
Contents == {"", "hi"}
GroupNames == {"", "Team"}
\* datetime.datetime.now(): wall-clock time, not monotonic
Times == 0..MaxTime

\* st.session_state (users and groups are dicts, kept in insertion order), then
\*   uuid_count  how many uuid4() values have been drawn
\*   event       the widget event the last script run handled, with its inputs
\*   pre_chats   active_chats as it was when that script run started
VARIABLES users, current_user, messages, groups, active_chats,
          unread_counts, current_page, uuid_count, event, pre_chats

store == <<users, current_user, messages, groups, active_chats,
           unread_counts, current_page>>
vars == <<users, current_user, messages, groups, active_chats,
          unread_counts, current_page, uuid_count, event, pre_chats>>

\* Optional[User]: None is the empty sequence, a user u is <<u>>
None == <<>>

\* str(uuid.uuid4()): a value never produced before
uuid4 == uuid_count + 1

User(id, name, age, gender) ==
    [id |-> id, name |-> name, age |-> age, gender |-> gender, online |-> TRUE]

\* a message born read
Message_read(id, sender_id, receiver_id, content, timestamp) ==
    [id |-> id, sender_id |-> sender_id, receiver_id |-> receiver_id,
     content |-> content, timestamp |-> timestamp, is_read |-> TRUE]

Message(id, sender_id, receiver_id, content, timestamp) ==
    [id |-> id, sender_id |-> sender_id, receiver_id |-> receiver_id,
     content |-> content, timestamp |-> timestamp, is_read |-> FALSE]

Group(id, name, creator_id, members, created_at) ==
    [id |-> id, name |-> name, creator_id |-> creator_id,
     members |-> members, created_at |-> created_at]

\* chat-window keys: the user id itself, or "group_" + group id
user_key(user_id) == <<"", user_id>>
group_key(group_id) == <<"group_", group_id>>
startswith_group(chat_id) == chat_id[1] = "group_"
strip_prefix(chat_id) == chat_id[2]
user_of(chat_id) == chat_id[2]

Range(s) == {s[i] : i \in DOMAIN s}
user_ids == {users[i].id : i \in DOMAIN users}
group_ids == {groups[i].id : i \in DOMAIN groups}
groups_get(group_id) == CHOOSE g \in Range(groups) : g.id = group_id

init_session_state ==
    /\ users = <<>>
    /\ current_user = None
    /\ messages = <<>>
    /\ groups = <<>>
    /\ active_chats = {}
    /\ unread_counts = <<>>
    /\ current_page = "login"

Init ==
    /\ init_session_state
    /\ uuid_count = 0
    /\ event = [op |-> "init"]
    /\ pre_chats = {}

get_unread_messages_count(user_id) ==
    Cardinality({i \in DOMAIN messages :
        messages[i].receiver_id = user_id /\ ~messages[i].is_read})

\* ---- login page ----
\* a validation that forgets the gender placeholder
login_valid_name_only(name, gender) == name # ""

login_valid(name, gender) == name # "" /\ gender # "Select Gender"

\* a login that numbers users by count instead of drawing a uuid
login_page_counted_id(name, age, gender) ==
    IF login_valid(name, gender)
    THEN LET new_user == User(Len(users) + 1, name, age, gender) IN
         /\ users' = Append(users, new_user)
         /\ current_user' = <<new_user>>
         /\ current_page' = "main"
         /\ uuid_count' = uuid_count + 1
    ELSE UNCHANGED <<users, current_user, current_page, uuid_count>>

login_page(name, age, gender) ==
    IF login_valid(name, gender)
    THEN LET new_user == User(uuid4, name, age, gender) IN
         /\ users' = Append(users, new_user)
         /\ current_user' = <<new_user>>
         /\ current_page' = "main"
         /\ uuid_count' = uuid_count + 1
    ELSE UNCHANGED <<users, current_user, current_page, uuid_count>>

LoginSubmit ==
    /\ current_page = "login"
    /\ \E form \in LoginForms :
        /\ login_valid(form.name, form.gender) => uuid_count < MaxIds
        /\ login_page(form.name, form.age, form.gender)
        /\ event' = [op |-> "login", name |-> form.name, age |-> form.age,
                     gender |-> form.gender]
    /\ pre_chats' = active_chats
    /\ UNCHANGED <<messages, groups, active_chats, unread_counts>>

\* ---- main page: logout ----
\* a logout that forgets to go back to the login page
logout_keeps_page ==
    /\ current_user' = None
    /\ UNCHANGED <<current_page, users, messages, groups, active_chats,
                   unread_counts, uuid_count>>

\* a logout that also wipes the conversation data
logout_clears_data ==
    /\ current_user' = None
    /\ current_page' = "login"
    /\ messages' = <<>>
    /\ UNCHANGED <<users, groups, active_chats, unread_counts, uuid_count>>

logout ==
    /\ current_user' = None
    /\ current_page' = "login"
    /\ UNCHANGED <<users, messages, groups, active_chats, unread_counts, uuid_count>>

Logout ==
    /\ current_page # "login"
    /\ logout
    /\ event' = [op |-> "logout"]
    /\ pre_chats' = active_chats

\* ---- main page: sidebar "Chat" buttons ----
\* the users the sidebar lists, in dict (registration) order
\* a sidebar that lists the current user too
available_users_all == users

available_users ==
    SelectSeq(users, LAMBDA user : user.id # current_user[1].id)

\* a "Chat" button that toggles the window
openChat_toggle(chats, chat_id) ==
    IF chat_id \in chats THEN chats \ {chat_id} ELSE chats \cup {chat_id}

openChat(chats, chat_id) == chats \cup {chat_id}

ChatButton ==
    /\ current_page # "login"
    /\ \E i \in DOMAIN available_users :
        LET user_id == available_users[i].id IN
        /\ active_chats' = openChat(active_chats, user_key(user_id))
        /\ event' = [op |-> "open", key |-> user_key(user_id)]
    /\ pre_chats' = active_chats
    /\ UNCHANGED <<users, current_user, messages, groups, unread_counts,
                   current_page, uuid_count>>

\* ---- main page: create-group form ----
\* st.multiselect returns the chosen options in the order they were chosen
option_names == {available_users[i].name : i \in DOMAIN available_users}
Selections ==
    {<<>>} \cup {<<a>> : a \in option_names}
           \cup {<<a, b>> : <<a, b>> \in {p \in option_names \X option_names : p[1] # p[2]}}

IdsOf(us) == [i \in DOMAIN us |-> us[i].id]

member_ids(selected_users) ==
    <<current_user[1].id>> \o
    IdsOf(SelectSeq(available_users,
                    LAMBDA user : user.name \in Range(selected_users)))

group_valid(group_name, selected_users) ==
    group_name # "" /\ selected_users # <<>>

create_group(group_name, selected_users) ==
    IF group_valid(group_name, selected_users)
    THEN /\ \E now \in Times :
            groups' = Append(groups,
                Group(uuid4, group_name, current_user[1].id,
                      member_ids(selected_users), now))
         /\ uuid_count' = uuid_count + 1
    ELSE UNCHANGED <<groups, uuid_count>>

CreateGroupSubmit ==
    /\ current_page # "login"
    /\ \E group_name \in GroupNames, selected_users \in Selections :
        /\ group_valid(group_name, selected_users) => uuid_count < MaxIds
        /\ create_group(group_name, selected_users)
        /\ event' = [op |-> "create_group", name |-> group_name,
                     selected |-> selected_users]
    /\ pre_chats' = active_chats
    /\ UNCHANGED <<users, current_user, messages, active_chats, unread_counts,
                   current_page>>

\* ---- main page: "Your Groups" buttons ----
visible_groups ==
    SelectSeq(groups, LAMBDA group : current_user[1].id \in Range(group.members))

GroupButton ==
    /\ current_page # "login"
    /\ \E i \in DOMAIN visible_groups :
        LET group_id == visible_groups[i].id IN
        /\ active_chats' = openChat(active_chats, group_key(group_id))
        /\ event' = [op |-> "open", key |-> group_key(group_id)]
    /\ pre_chats' = active_chats
    /\ UNCHANGED <<users, current_user, messages, groups, unread_counts,
                   current_page, uuid_count>>

\* ---- active chat windows ----
send(receiver_id, message) ==
    IF message # ""
    THEN /\ \E now \in Times :
            messages' = Append(messages,
                Message(uuid4, current_user[1].id, receiver_id, message, now))
         /\ uuid_count' = uuid_count + 1
    ELSE UNCHANGED <<messages, uuid_count>>

SendDirect ==
    /\ current_page # "login"
    /\ \E chat_id \in active_chats, message \in Contents :
        /\ ~startswith_group(chat_id)
        /\ message # "" => uuid_count < MaxIds
        /\ send(user_of(chat_id), message)
        /\ event' = [op |-> "send", key |-> chat_id, content |-> message]
    /\ pre_chats' = active_chats
    /\ UNCHANGED <<users, current_user, groups, active_chats, unread_counts,
                   current_page>>

SendGroup ==
    /\ current_page # "login"
    /\ \E chat_id \in active_chats, message \in Contents :
        /\ startswith_group(chat_id)
        /\ message # "" => uuid_count < MaxIds
        /\ send(strip_prefix(chat_id), message)
        /\ event' = [op |-> "send", key |-> chat_id, content |-> message]
    /\ pre_chats' = active_chats
    /\ UNCHANGED <<users, current_user, groups, active_chats, unread_counts,
                   current_page>>

closeChat(chats, chat_id) == chats \ {chat_id}

CloseChat ==
    /\ current_page # "login"
    /\ \E chat_id \in active_chats :
        /\ active_chats' = closeChat(active_chats, chat_id)
        /\ event' = [op |-> "close", key |-> chat_id]
    /\ pre_chats' = active_chats
    /\ UNCHANGED <<users, current_user, messages, groups, unread_counts,
                   current_page, uuid_count>>

\* ---- what a chat window displays ----
RECURSIVE sorted(_)
\* sorted(seq, key=lambda x: x.timestamp): stable, ascending
sorted(seq) ==
    IF seq = <<>> THEN <<>>
    ELSE LET n == Len(seq)
             x == seq[n]
             front == sorted(SubSeq(seq, 1, n - 1))
             k == Cardinality({i \in DOMAIN front : front[i].timestamp <= x.timestamp})
         IN SubSeq(front, 1, k) \o <<x>> \o SubSeq(front, k + 1, n - 1)

\* a filter that takes a message when either end is in the pair
in_chat_either(msg, other_user_id) ==
    \/ msg.sender_id \in {current_user[1].id, other_user_id}
    \/ msg.receiver_id \in {current_user[1].id, other_user_id}

in_chat(msg, other_user_id) ==
    /\ msg.sender_id \in {current_user[1].id, other_user_id}
    /\ msg.receiver_id \in {current_user[1].id, other_user_id}

chat_messages(other_user_id) ==
    SelectSeq(messages, LAMBDA msg : in_chat(msg, other_user_id))

render_chat_window(other_user_id) == sorted(chat_messages(other_user_id))

group_messages(group_id) ==
    SelectSeq(messages, LAMBDA msg : msg.receiver_id = group_id)

render_group_chat(group_id) == sorted(group_messages(group_id))

Next ==
    \/ LoginSubmit
    \/ Logout
    \/ ChatButton
    \/ CreateGroupSubmit
    \/ GroupButton
    \/ SendDirect
    \/ SendGroup
    \/ CloseChat

Spec == Init /\ [][Next]_vars

\* ======================= properties =======================

logged_in == current_user # None
direct_chats == {chat_id \in active_chats : ~startswith_group(chat_id)}
group_chats == {chat_id \in active_chats : startswith_group(chat_id)}

\* C1: current_user is None exactly when current_page is "login".
C1_NoneIffLogin == (current_user = None) <=> (current_page = "login")

\* a logout has happened in a session that holds users
C1_Witness ==
    /\ event.op = "logout"
    /\ users # <<>>
    /\ current_user = None
    /\ current_page = "login"

\* the indices of the messages exchanged between exactly the two users a and b
pair_messages(a, b) ==
    {i \in DOMAIN messages : {messages[i].sender_id, messages[i].receiver_id} = {a, b}}

\* C2: every rendered direct chat window (current user A, other user B) shows
\* exactly the messages whose {sender_id, receiver_id} is the set {A, B}, all
\* of them, no self-message, in ascending timestamp order.
C2_DirectHistory ==
    logged_in =>
        \A chat_id \in direct_chats :
            LET A == current_user[1].id
                B == user_of(chat_id)
                shown == render_chat_window(B)
            IN /\ Range(shown) = {messages[i] : i \in pair_messages(A, B)}
               /\ Len(shown) = Cardinality(pair_messages(A, B))
               /\ \A i \in DOMAIN shown : shown[i].sender_id # shown[i].receiver_id
               /\ \A i, j \in DOMAIN shown :
                    i < j => shown[i].timestamp <= shown[j].timestamp

\* a window shows two messages that were sent with decreasing timestamps
C2_Witness ==
    /\ logged_in
    /\ \E chat_id \in direct_chats :
        LET shown == render_chat_window(user_of(chat_id)) IN
        /\ Len(shown) = 2
        /\ shown[1].timestamp < shown[2].timestamp
        /\ shown[1].id > shown[2].id

\* C9: nothing is addressed to the logged-in user: their id is in no open chat
\* key and is the receiver of no message, no message is sent to its own
\* sender, and their unread count is 0.
C9_NothingForCurrentUser ==
    /\ \A i \in DOMAIN messages : messages[i].sender_id # messages[i].receiver_id
    /\ logged_in =>
        /\ user_key(current_user[1].id) \notin active_chats
        /\ \A i \in DOMAIN messages : messages[i].receiver_id # current_user[1].id
        /\ get_unread_messages_count(current_user[1].id) = 0

\* a third user is logged in while earlier users have exchanged a message
C9_Witness ==
    /\ logged_in
    /\ Len(users) = 3
    /\ direct_chats # {}
    /\ \E i \in DOMAIN messages :
        /\ messages[i].receiver_id \in user_ids
        /\ get_unread_messages_count(messages[i].receiver_id) = 1

\* C10: with a user logged in, every open group chat belongs to a group the
\* user is a member of, and every message to a group was sent by one of its
\* members.
C10_GroupChatsMembersOnly ==
    /\ logged_in =>
        \A chat_id \in group_chats :
            current_user[1].id \in Range(groups_get(strip_prefix(chat_id)).members)
    /\ \A i \in DOMAIN messages :
        messages[i].receiver_id \in group_ids =>
            messages[i].sender_id \in Range(groups_get(messages[i].receiver_id).members)

name_of(user_id, us) == (CHOOSE u \in Range(us) : u.id = user_id).name

\* the submitted create-group form passes the handler's validation
is_group_creation(e) ==
    e.op = "create_group" /\ e.name # "" /\ e.selected # <<>>

\* C3: a successful createGroup(name, creator, selectedNames) inserts a group
\* whose members are the creator followed by exactly one user id per selected
\* name, in the order the names were selected.
C3_MembersInSelectionOrder ==
    [][is_group_creation(event') =>
        /\ Len(groups') = Len(groups) + 1
        /\ LET members == groups'[Len(groups')].members
               selected == event'.selected
           IN /\ Len(members) = 1 + Len(selected)
              /\ members[1] = current_user[1].id
              /\ \A i \in DOMAIN selected :
                    /\ members[i + 1] \in user_ids
                    /\ name_of(members[i + 1], users) = selected[i]]_vars

\* the last two script runs were a click that opens chat k and the click on
\* k's "Close Chat" button
is_round_trip(e1, e2) == e1.op = "open" /\ e2.op = "close" /\ e2.key = e1.key
is_reopen(e1, e2) == e1.op = "open" /\ e2.op = "open" /\ e2.key = e1.key

\* C4 as stated: closing chat k right after opening it restores active_chats
\* to what it was before the open, whatever it held before.
C4_RoundTripRestores ==
    [][is_round_trip(event, event') => active_chats' = pre_chats]_vars

\* C4 amended: closing chat k right after opening it leaves active_chats as it
\* was before the open with k removed, which is the set before the open
\* exactly when k was not open then; opening k twice in a row gives what
\* opening it once gives.
C4_RoundTripRemoves ==
    [][/\ is_round_trip(event, event') =>
            /\ active_chats' = pre_chats \ {event.key}
            /\ (event.key \notin pre_chats => active_chats' = pre_chats)
            /\ (event.key \in pre_chats => active_chats' # pre_chats)
       /\ is_reopen(event, event') => active_chats' = active_chats
       /\ event'.op = "open" => active_chats' = active_chats \cup {event'.key}]_vars

\* a chat that was already open has been opened again; its window, with its
\* "Close Chat" button, is on the page next to another one
C4_Witness ==
    /\ logged_in
    /\ event.op = "open"
    /\ event.key \in pre_chats
    /\ event.key \in active_chats
    /\ Cardinality(active_chats) >= 2

\* the script run was the submission of a non-empty direct message to user u
is_send_to(e, u) ==
    e.op = "send" /\ e.content # "" /\ ~startswith_group(e.key) /\ user_of(e.key) = u

received(u) == Cardinality({i \in DOMAIN messages : messages[i].receiver_id = u})

\* C5: the unread count of a user is the number of messages in the store that
\* are addressed to them, every message sent to them raises it by one, nothing
\* else changes it, and so it never decreases; no stored message is dropped
\* or altered.
C5_UnreadCountsEverySend ==
    [][/\ Len(messages') >= Len(messages)
       /\ SubSeq(messages', 1, Len(messages)) = messages
       /\ \A u \in user_ids' :
            LET before == get_unread_messages_count(u)
                after == get_unread_messages_count(u)'
            IN /\ after = received(u)'
               /\ after = before + (IF is_send_to(event', u) THEN 1 ELSE 0)
               /\ after >= before]_vars

\* a user has been sent two messages and has two unread
C5_Witness ==
    \E u \in user_ids :
        /\ is_send_to(event, u)
        /\ get_unread_messages_count(u) = 2

\* the submitted form fails its handler's validation
is_invalid_submission(e) ==
    \/ e.op = "login" /\ (e.name = "" \/ e.gender = "Select Gender")
    \/ e.op = "send" /\ e.content = ""
    \/ e.op = "create_group" /\ (e.name = "" \/ e.selected = <<>>)

\* C6: a login submit with empty name or placeholder gender, a message submit
\* with empty content and a create-group submit with empty name or no member
\* selected leave the whole session store unchanged.
C6_InvalidSubmitIsNoop ==
    [][is_invalid_submission(event') => UNCHANGED <<store, uuid_count>>]_vars

\* a create-group form with a name and no members was submitted in a session
\* that holds users and a message
C6_Witness ==
    /\ is_invalid_submission(event)
    /\ event.op = "create_group"
    /\ event.name # ""
    /\ Len(users) >= 2
    /\ messages # <<>>

\* C7: logout sets current_user to None and current_page to "login" and
\* leaves users, messages and groups as they were.
C7_LogoutFrame ==
    [][event'.op = "logout" =>
        /\ current_user' = None
        /\ current_page' = "login"
        /\ UNCHANGED <<users, messages, groups>>]_vars

\* a logout has happened in a session that holds users, a group and a message
C7_Witness ==
    /\ event.op = "logout"
    /\ Len(users) >= 2
    /\ groups # <<>>
    /\ messages # <<>>

\* the submitted login form is valid
is_valid_login(e) ==
    /\ e.op = "login"
    /\ e.name # ""
    /\ e.age \in 18..100
    /\ e.gender \in {"Male", "Female", "Other"}

\* C8: a valid login submission appends one user whose id was the id of no
\* user and of no group before, leaves the earlier users as they were, makes
\* the new user the current user and moves to the main page.
C8_CreateUserFresh ==
    [][is_valid_login(event') =>
        /\ Len(users') = Len(users) + 1
        /\ SubSeq(users', 1, Len(users)) = users
        /\ LET new_user == users'[Len(users')] IN
            /\ new_user.id \notin user_ids \cup group_ids
            /\ new_user.name = event'.name
            /\ new_user.age = event'.age
            /\ new_user.gender = event'.gender
            /\ current_user' = <<new_user>>
        /\ current_page' = "main"]_vars

\* a third user has logged in while a group exists
C8_Witness ==
    /\ is_valid_login(event)
    /\ Len(users) = 3
    /\ groups # <<>>
    /\ current_page = "main"
====
